---- MODULE Spec2Model ----
(***************************************************************************)
(* Model of the Yamaha (YNCA) integration:                                  *)
(*   custom_components/yamaha_ynca/__init__.py      config entry lifecycle  *)
(*   custom_components/yamaha_ynca/media_player.py  the zone entity         *)
(*                                                                          *)
(* Spec      the config entries of one host: async_setup_entry,             *)
(*           async_unload_entry and the disconnect callback, each cut at    *)
(*           the awaits of its coroutine so that entries interleave.        *)
(* SpecZone  one YamahaYncaZone entity and the receiver objects it          *)
(*           registers its update callback on; SpecZoneLive adds that the   *)
(*           host loop runs the refreshes scheduled on it.                  *)
(***************************************************************************)
EXTENDS Integers, Sequences, FiniteSets, TLC

\* ------------------------------------------------------------------ bounds
NumEntries == 2
NumZones == 2
MaxBurst == 2

Entries == 1..NumEntries

\* The zone subunits a receiver can have, in the order the code walks them.
ZONE_ATTRIBUTE_NAMES == <<"MAIN", "ZONE2", "ZONE3", "ZONE4">>

Zones == {ZONE_ATTRIBUTE_NAMES[i] : i \in 1..NumZones}

\* const.DOMAIN (DOMAIN is a reserved word of TLA+)
YNCA_DOMAIN == "yamaha_ynca"

VARIABLES
    \* ---- config entries (Spec)
    epc,                \* [Entries -> position of the entry's setup/unload coroutine]
    result,             \* [Entries -> what the last async_setup_entry/async_unload_entry call ended with]
    lastInit,           \* [Entries -> what the last ynca_receiver.initialize() did]
    ran,                \* [Entries -> the post-initialization steps the current/last setup call ran]
    receiver,           \* [Entries -> the YncaApi object of the entry: state and number of close() calls]
    connected,          \* [Entries -> the receiver's connection is up (it can still report a disconnect)]
    zonesPresent,       \* [Entries -> the zones the receiver hardware has]
    hassData,           \* the keys of hass.data[DOMAIN]
    serviceRegistered,  \* hass.services.has_service(DOMAIN, SERVICE_SEND_RAW_YNCA)
    registeredTwice,    \* async_register was called while the service was registered
    devices,            \* the device registry: records [entry, ident]
    dataZones,          \* [Entries -> DATA_ZONES of config_entry.data: whether it is set, and to what]
    forwarded,          \* the entries whose platforms are set up
    mpEntities,         \* the media_player entities the host holds: records [entry, zone, ident]
    listeners,          \* the entries with an update listener registered
    dpc,                \* [Entries -> position of on_disconnect on the receiver's thread]
    cbReq,              \* [Entries -> the entry id on_disconnect asked to reload, 0 when none]
    reload,             \* [Entries -> progress of hass.config_entries.async_reload(entry id)]
    \* ---- one zone entity (SpecZone)
    life,               \* "created", "added" (async_added_to_hass ran) or "removed"
    present,            \* the input subunits the receiver has
    callbacks,          \* the objects self.debounced_update is registered on
    pwr,                \* zone.pwr
    zinput,             \* zone.input
    playbackinfo,       \* [subunits with a playbackinfo attribute -> its value]
    pending,            \* state refreshes scheduled on the host loop and not yet run
    hostView,           \* the entity state the host last wrote
    burstCallbacks,     \* update callbacks delivered in the current debounce window
    burstRefreshes,     \* schedule_update_ha_state calls in the current debounce window
    inputs,             \* receiver.inputs: [input -> the name the user gave it]
    lastSelect          \* the name the last select_source got, "none" once the receiver reported since

entryVars == <<epc, result, lastInit, ran, receiver, connected, zonesPresent, hassData,
               serviceRegistered, registeredTwice, devices, dataZones, forwarded,
               mpEntities, listeners, dpc, cbReq, reload>>

zoneVars == <<life, present, callbacks, pwr, zinput, playbackinfo, pending, hostView,
              burstCallbacks, burstRefreshes, inputs, lastSelect>>

vars == <<entryVars, zoneVars>>

\* ============================================================ __init__.py

\* What ynca_receiver.initialize() can do: return, or raise.
InitOutcomes ==
    {"ok", "YncaConnectionError", "YncaConnectionFailed",
     "YncaInitializationFailedException", "Exception"}

LibraryFailures ==
    {"YncaConnectionError", "YncaConnectionFailed", "YncaInitializationFailedException"}

PostInitSteps ==
    {"update_device_registry", "update_configentry", "store_data",
     "forward_entry_setups", "service", "update_listener"}

\* Faulty variant: the except clause for YncaConnectionFailed is missing, so it falls
\* through to `except Exception`.
initialize_ynca_unlisted(outcome) ==
    CASE outcome = "ok" -> "True"
      [] outcome = "YncaConnectionError" -> "ConfigEntryNotReady"
      [] outcome = "YncaInitializationFailedException" -> "ConfigEntryNotReady"
      [] OTHER -> "False"

\* Faulty variant: the unexpected exception is logged and initialization counts as done.
initialize_ynca_swallow(outcome) ==
    CASE outcome \in LibraryFailures -> "ConfigEntryNotReady"
      [] OTHER -> "True"

\* initialize_ynca: True when initialize() returns, ConfigEntryNotReady raised
\* for the three library failures, False for any other Exception.
initialize_ynca(outcome) ==
    CASE outcome = "ok" -> "True"
      [] outcome = "YncaConnectionError" -> "ConfigEntryNotReady"
      [] outcome = "YncaConnectionFailed" -> "ConfigEntryNotReady"
      [] outcome = "YncaInitializationFailedException" -> "ConfigEntryNotReady"
      [] OTHER -> "False"

\* f"{config_entry.entry_id}_{zone_subunit.id}": the parts of the formatted string.
DeviceIdent(e, z) == <<YNCA_DOMAIN, <<e, "_", z>>>>

\* The devices update_device_registry registers for entry e: one per zone present.
update_device_registry(e) ==
    {[entry |-> e, ident |-> DeviceIdent(e, z)] : z \in zonesPresent[e]}

\* update_configentry: fills DATA_ZONES only when the entry has none.
update_configentry(e) ==
    IF ~dataZones[e].set THEN [set |-> TRUE, zones |-> zonesPresent[e]] ELSE dataZones[e]

\* YamahaYncaZone.__init__: identifiers {(DOMAIN, receiver_unique_id)}, and the
\* platform passes config_entry.entry_id as receiver_unique_id.
EntityIdent(e) == <<YNCA_DOMAIN, <<e>>>>

\* media_player.async_setup_entry: one YamahaYncaZone per zone present.
media_player_setup_entry(e) ==
    {[entry |-> e, zone |-> z, ident |-> EntityIdent(e)] : z \in zonesPresent[e]}

\* The host's ConfigEntry.state, as the host derives it from the calls it made.
HostState(e) ==
    CASE epc[e] \in {"init", "forward"} -> "setup_in_progress"
      [] result[e] = "setup_true" -> "loaded"
      [] result[e] = "setup_not_ready" -> "setup_retry"
      [] result[e] = "setup_false" -> "setup_error"
      [] result[e] = "unload_false" -> "failed_unload"
      [] OTHER -> "not_loaded"

\* async_setup_entry up to its first await: the YncaApi is constructed with
\* on_disconnect and initialize_ynca is handed to the executor.
SetupBegin(e) ==
    /\ epc' = [epc EXCEPT ![e] = "init"]
    /\ receiver' = [receiver EXCEPT ![e] = [state |-> "constructed", closes |-> 0]]
    /\ connected' = [connected EXCEPT ![e] = TRUE]
    /\ ran' = [ran EXCEPT ![e] = {}]
    /\ result' = [result EXCEPT ![e] = "none"]
    /\ lastInit' = [lastInit EXCEPT ![e] = "none"]

\* The host sets a not loaded entry up (at start, or when its retry timer fires).
HostSetup(e) ==
    /\ epc[e] = "idle"
    /\ reload[e] = "none"
    /\ HostState(e) \in {"not_loaded", "setup_retry"}
    /\ SetupBegin(e)
    /\ UNCHANGED <<zonesPresent, hassData, serviceRegistered,
                   registeredTwice, devices, dataZones, forwarded, mpEntities,
                   listeners, dpc, cbReq, reload>>
    /\ UNCHANGED zoneVars

\* A setup call that ended finishes the reload that made it.
ReloadAfterSetup(e) ==
    IF reload[e] = "setting_up" THEN [reload EXCEPT ![e] = "done"] ELSE reload

\* The executor job is done: initialized is known. When it is true the code runs on
\* to the await of async_forward_entry_setups; otherwise the call ends here.
InitializeDone(e) ==
    /\ epc[e] = "init"
    /\ \E outcome \in InitOutcomes :
        LET initialized == initialize_ynca(outcome) IN
        /\ lastInit' = [lastInit EXCEPT ![e] = outcome]
        /\ IF initialized = "True"
           THEN /\ devices' = devices \cup update_device_registry(e)
                /\ dataZones' = [dataZones EXCEPT ![e] = update_configentry(e)]
                /\ hassData' = hassData \cup {e}
                /\ receiver' = [receiver EXCEPT ![e].state = "initialized"]
                /\ ran' = [ran EXCEPT ![e] =
                             {"update_device_registry", "update_configentry", "store_data"}]
                /\ epc' = [epc EXCEPT ![e] = "forward"]
                /\ UNCHANGED <<result, connected, reload>>
           ELSE /\ result' = [result EXCEPT ![e] =
                                IF initialized = "False"
                                THEN "setup_false" ELSE "setup_not_ready"]
                /\ epc' = [epc EXCEPT ![e] = "idle"]
                /\ connected' = [connected EXCEPT ![e] =
                                   IF outcome \in {"YncaConnectionError", "YncaConnectionFailed"}
                                   THEN FALSE ELSE connected[e]]
                /\ reload' = ReloadAfterSetup(e)
                /\ UNCHANGED <<devices, dataZones, hassData, receiver, ran>>
    /\ UNCHANGED <<zonesPresent, serviceRegistered, registeredTwice, forwarded,
                   mpEntities, listeners, dpc, cbReq>>
    /\ UNCHANGED zoneVars

\* Faulty variant: the service is registered without asking has_service first.
RegisterService_unchecked(svc) == [registered |-> TRUE, twice |-> svc]

\* if not has_service: async_register. twice: async_register ran on a registered service.
RegisterService(svc) == [registered |-> TRUE, twice |-> FALSE]

\* The platforms are set up: the rest of async_setup_entry runs and returns True.
ForwardDone(e) ==
    /\ epc[e] = "forward"
    /\ forwarded' = forwarded \cup {e}
    /\ mpEntities' = mpEntities \cup media_player_setup_entry(e)
    /\ serviceRegistered' = RegisterService(serviceRegistered).registered
    /\ registeredTwice' = (registeredTwice \/ RegisterService(serviceRegistered).twice)
    /\ listeners' = listeners \cup {e}
    /\ ran' = [ran EXCEPT ![e] = PostInitSteps]
    /\ result' = [result EXCEPT ![e] = "setup_true"]
    /\ epc' = [epc EXCEPT ![e] = "idle"]
    /\ reload' = ReloadAfterSetup(e)
    /\ UNCHANGED <<lastInit, receiver, connected, zonesPresent, hassData, devices,
                   dataZones, dpc, cbReq>>
    /\ UNCHANGED zoneVars

\* The host unloads a loaded entry: async_unload_entry up to the await of
\* async_unload_platforms.
HostUnload(e) ==
    /\ epc[e] = "idle"
    /\ reload[e] = "none"
    /\ HostState(e) = "loaded"
    /\ epc' = [epc EXCEPT ![e] = "unload_platforms"]
    /\ UNCHANGED <<result, lastInit, ran, receiver, connected, zonesPresent, hassData,
                   serviceRegistered, registeredTwice, devices, dataZones, forwarded,
                   mpEntities, listeners, dpc, cbReq, reload>>
    /\ UNCHANGED zoneVars

\* Faulty variant: the entry's data is popped whether or not the platforms unloaded.
UnloadData_always(data, e, unload_ok) == data \ {e}

\* Faulty variant: the whole of hass.data[DOMAIN] is dropped with the entry.
UnloadData_clear(data, e, unload_ok) == IF unload_ok THEN {} ELSE data

\* if unload_ok: hass.data[DOMAIN].pop(entry.entry_id)
UnloadData(data, e, unload_ok) == IF unload_ok THEN data \ {e} ELSE data

\* Faulty variant: the service is removed whatever is left in hass.data[DOMAIN].
ServiceAfterUnload_always(data, svc) == FALSE

\* if len(hass.data[DOMAIN]) == 0: hass.services.async_remove(...)
ServiceAfterUnload(data, svc) == IF Cardinality(data) = 0 THEN FALSE ELSE svc

\* A finished unload inside a reload: on success the reload goes on to set the
\* entry up again, on failure it ends.
ReloadAfterUnload(e, unload_ok) ==
    IF reload[e] = "unload"
    THEN [reload EXCEPT ![e] = IF unload_ok THEN "setup" ELSE "done"]
    ELSE reload

\* async_unload_platforms answered. True: the entry's data is popped and close_ynca
\* is handed to the executor. False: the rest of async_unload_entry runs and
\* returns False.
UnloadPlatformsDone(e) ==
    /\ epc[e] = "unload_platforms"
    /\ \E unload_ok \in BOOLEAN :
        /\ hassData' = UnloadData(hassData, e, unload_ok)
        /\ IF unload_ok
           THEN /\ epc' = [epc EXCEPT ![e] = "closing"]
                /\ forwarded' = forwarded \ {e}
                /\ mpEntities' = {m \in mpEntities : m.entry # e}
                /\ UNCHANGED <<result, serviceRegistered, reload>>
           ELSE /\ serviceRegistered' = ServiceAfterUnload(hassData', serviceRegistered)
                /\ result' = [result EXCEPT ![e] = "unload_false"]
                /\ epc' = [epc EXCEPT ![e] = "idle"]
                /\ reload' = ReloadAfterUnload(e, FALSE)
                /\ UNCHANGED <<forwarded, mpEntities>>
    /\ UNCHANGED <<lastInit, ran, receiver, connected, zonesPresent, registeredTwice,
                   devices, dataZones, listeners, dpc, cbReq>>
    /\ UNCHANGED zoneVars

\* Faulty variant: close_ynca is never run.
close_ynca_skipped(r) == r

\* close_ynca: ynca_receiver.close()
close_ynca(r) == [state |-> "closed", closes |-> r.closes + 1]

\* The executor ran close_ynca: the rest of async_unload_entry runs and returns
\* True, and the host drops the entry's update listener.
CloseDone(e) ==
    /\ epc[e] = "closing"
    /\ receiver' = [receiver EXCEPT ![e] = close_ynca(receiver[e])]
    /\ connected' = [connected EXCEPT ![e] = FALSE]
    /\ serviceRegistered' = ServiceAfterUnload(hassData, serviceRegistered)
    /\ listeners' = listeners \ {e}
    /\ result' = [result EXCEPT ![e] = "unload_true"]
    /\ epc' = [epc EXCEPT ![e] = "idle"]
    /\ reload' = ReloadAfterUnload(e, TRUE)
    /\ UNCHANGED <<lastInit, ran, zonesPresent, hassData, registeredTwice, devices,
                   dataZones, forwarded, mpEntities, dpc, cbReq>>
    /\ UNCHANGED zoneVars

\* ---------------------------------------------------------- on_disconnect

\* Faulty variant: the callback reloads a fixed entry instead of the one it was made for.
ReloadArg_first(e) == 1

\* hass.config_entries.async_reload(entry.entry_id): the id the closure holds.
ReloadArg(e) == e

\* Faulty variant: the future's result() is not waited for.
ResultReady_nowait(t) == TRUE

\* run_coroutine_threadsafe(...).result() returns or raises once the reload ended.
ResultReady(t) == reload[t] \in {"done", "refused"}

\* Faulty variant: OperationNotAllowed is not caught.
on_disconnect_end_uncaught(t) == IF reload[t] = "refused" THEN "raised" ELSE "idle"

\* How on_disconnect ends: OperationNotAllowed is caught and passed over.
on_disconnect_end(t) == "idle"

\* The receiver reports a lost connection on its own thread: on_disconnect hands
\* the reload to the host loop and blocks in result().
OnDisconnect(e) ==
    /\ connected[e]
    /\ dpc[e] = "idle"
    /\ reload[ReloadArg(e)] = "none"
    /\ connected' = [connected EXCEPT ![e] = FALSE]
    /\ dpc' = [dpc EXCEPT ![e] = "waiting"]
    /\ cbReq' = [cbReq EXCEPT ![e] = ReloadArg(e)]
    /\ reload' = [reload EXCEPT ![ReloadArg(e)] = "queued"]
    /\ UNCHANGED <<epc, result, lastInit, ran, receiver, zonesPresent, hassData,
                   serviceRegistered, registeredTwice, devices, dataZones, forwarded,
                   mpEntities, listeners>>
    /\ UNCHANGED zoneVars

\* The host loop runs async_reload(t). An entry that is being set up or that failed
\* to unload is refused with OperationNotAllowed; a loaded entry is unloaded first;
\* any other entry goes straight to its setup.
ReloadStart(t) ==
    /\ reload[t] = "queued"
    /\ epc[t] \in {"idle", "init", "forward"}
    /\ IF HostState(t) \in {"setup_in_progress", "failed_unload"}
       THEN /\ reload' = [reload EXCEPT ![t] = "refused"]
            /\ UNCHANGED epc
       ELSE IF HostState(t) = "loaded"
       THEN /\ reload' = [reload EXCEPT ![t] = "unload"]
            /\ epc' = [epc EXCEPT ![t] = "unload_platforms"]
       ELSE /\ reload' = [reload EXCEPT ![t] = "setup"]
            /\ UNCHANGED epc
    /\ UNCHANGED <<result, lastInit, ran, receiver, connected, zonesPresent, hassData,
                   serviceRegistered, registeredTwice, devices, dataZones, forwarded,
                   mpEntities, listeners, dpc, cbReq>>
    /\ UNCHANGED zoneVars

\* The reload sets the entry up again: async_setup_entry up to its first await.
ReloadSetup(t) ==
    /\ reload[t] = "setup"
    /\ epc[t] = "idle"
    /\ SetupBegin(t)
    /\ reload' = [reload EXCEPT ![t] = "setting_up"]
    /\ UNCHANGED <<zonesPresent, hassData, serviceRegistered,
                   registeredTwice, devices, dataZones, forwarded, mpEntities,
                   listeners, dpc, cbReq>>
    /\ UNCHANGED zoneVars

\* result() returns (the reload ended) or raises OperationNotAllowed, which
\* on_disconnect catches: the callback ends.
OnDisconnectReturn(e) ==
    /\ dpc[e] = "waiting"
    /\ ResultReady(cbReq[e])
    /\ dpc' = [dpc EXCEPT ![e] = on_disconnect_end(cbReq[e])]
    /\ cbReq' = [cbReq EXCEPT ![e] = 0]
    /\ reload' = [reload EXCEPT ![cbReq[e]] = "none"]
    /\ UNCHANGED <<epc, result, lastInit, ran, receiver, connected, zonesPresent,
                   hassData, serviceRegistered, registeredTwice, devices, dataZones,
                   forwarded, mpEntities, listeners>>
    /\ UNCHANGED zoneVars

\* ======================================================== media_player.py

\* The zone this entity was made for.
ZoneId == "MAIN"

\* ynca.SUBUNIT_INPUT_MAPPINGS, cut to two input subunits: the input name each
\* subunit plays on.
SUBUNIT_INPUT_MAPPINGS == [TUN |-> "TUNER", USB |-> "USB"]

InputSubunitIds == DOMAIN SUBUNIT_INPUT_MAPPINGS

\* The input subunits that have a playbackinfo attribute (the tuner has none).
PlaybackSubunits == {"USB"}

\* ynca.PlaybackInfo, and None while the receiver has not reported it.
PlaybackValues == {"Play", "Pause", "Stop", "None"}

\* The values zone.input takes: one input without a subunit, and the mapped ones.
Inputs == {"HDMI1", "TUNER", "USB"}

\* _input_subunit: the subunit mapped to the zone's current input, when the
\* receiver has it.
input_subunit ==
    IF \E s \in InputSubunitIds : SUBUNIT_INPUT_MAPPINGS[s] = zinput
    THEN LET s == CHOOSE x \in InputSubunitIds : SUBUNIT_INPUT_MAPPINGS[x] = zinput
         IN  IF s \in present THEN s ELSE "None"
    ELSE "None"

\* getattr(input_subunit, "playbackinfo", None)
PlaybackInfoOf(s) == IF s \in PlaybackSubunits THEN playbackinfo[s] ELSE "None"

\* Faulty variant: the playback state is looked at before the power.
state_power_last ==
    LET info == IF input_subunit # "None" THEN PlaybackInfoOf(input_subunit) ELSE "None"
    IN  CASE info = "Play" -> "playing"
          [] info = "Pause" -> "paused"
          [] info = "Stop" -> "idle"
          [] OTHER -> IF pwr THEN "on" ELSE "off"

\* YamahaYncaZone.state
state ==
    IF ~pwr THEN "off"
    ELSE IF input_subunit # "None"
         THEN LET info == PlaybackInfoOf(input_subunit)
              IN  CASE info = "Play" -> "playing"
                    [] info = "Pause" -> "paused"
                    [] info = "Stop" -> "idle"
                    [] OTHER -> "on"
         ELSE "on"

\* Faulty variant: the decorator's timer drops the call instead of making it later.
debounced_update_dropped ==
    /\ pending' = pending
    /\ burstRefreshes' = burstRefreshes

\* debounced_update: the @debounce decorator is commented out, so every call
\* goes straight to schedule_update_ha_state.
debounced_update ==
    /\ pending' = pending + 1
    /\ burstRefreshes' = burstRefreshes + 1

\* Faulty variant: the subunits are not walked on removal.
UnregisterTargets_no_subunits == {"SYS", ZoneId}

\* The objects async_added_to_hass registers self.debounced_update on.
RegisterTargets == {"SYS", ZoneId} \cup {s \in InputSubunitIds : s \in present}

\* The objects async_will_remove_from_hass unregisters self.debounced_update from.
UnregisterTargets == {"SYS", ZoneId} \cup {s \in InputSubunitIds : s \in present}

\* async_added_to_hass; the host then writes the entity's first state.
async_added_to_hass ==
    /\ life # "added"
    /\ callbacks' = callbacks \cup RegisterTargets
    /\ life' = "added"
    /\ hostView' = state
    /\ UNCHANGED <<present, pwr, zinput, playbackinfo, pending, burstCallbacks,
                   burstRefreshes, inputs, lastSelect>>
    /\ UNCHANGED entryVars

\* async_will_remove_from_hass
async_will_remove_from_hass ==
    /\ life = "added"
    /\ callbacks' = callbacks \ UnregisterTargets
    /\ life' = "removed"
    /\ UNCHANGED <<present, pwr, zinput, playbackinfo, pending, hostView,
                   burstCallbacks, burstRefreshes, inputs, lastSelect>>
    /\ UNCHANGED entryVars

\* The receiver object `unit` calls its update callbacks: debounced_update runs
\* when it is registered there.
Deliver(unit) ==
    IF unit \in callbacks
    THEN /\ burstCallbacks < MaxBurst
         /\ pending < MaxBurst
         /\ burstCallbacks' = burstCallbacks + 1
         /\ debounced_update
    ELSE UNCHANGED <<burstCallbacks, burstRefreshes, pending>>

\* The receiver reports the zone's power and input.
ZoneUpdate ==
    /\ \E p \in BOOLEAN, i \in Inputs : pwr' = p /\ zinput' = i
    /\ Deliver(ZoneId)
    /\ lastSelect' = "none"
    /\ UNCHANGED <<life, present, callbacks, playbackinfo, hostView, inputs>>
    /\ UNCHANGED entryVars

\* The receiver reports on an input subunit it has.
SubunitUpdate ==
    /\ \E s \in present :
        /\ IF s \in PlaybackSubunits
           THEN \E v \in PlaybackValues : playbackinfo' = [playbackinfo EXCEPT ![s] = v]
           ELSE UNCHANGED playbackinfo
        /\ Deliver(s)
    /\ UNCHANGED <<life, present, callbacks, pwr, zinput, hostView, inputs, lastSelect>>
    /\ UNCHANGED entryVars

\* The names a user gives inputs; two inputs can carry the same one.
InputNames == {"Radio", "TV"}

\* The names select_source is called with: the user's, and one no input has.
SourceArgs == InputNames \cup {"Unknown"}

\* The order receiver.inputs.items() walks the table in.
INPUT_ORDER == <<"HDMI1", "TUNER", "USB">>

\* The names in the order of sorted(..., key=str.lower).
NAME_ORDER == <<"Radio", "TV">>

\* get_input_from_source: the first input that carries the name, None when no
\* input does.
get_input_from_source(src) ==
    IF \E k \in 1..Len(INPUT_ORDER) : inputs[INPUT_ORDER[k]] = src
    THEN LET k == CHOOSE j \in 1..Len(INPUT_ORDER) :
                      /\ inputs[INPUT_ORDER[j]] = src
                      /\ \A h \in 1..(j - 1) : inputs[INPUT_ORDER[h]] # src
         IN  INPUT_ORDER[k]
    ELSE "None"

\* YamahaYncaZone.source: self._receiver.inputs[self._zone.input], a KeyError
\* when the zone's input is no key of the table.
source == IF zinput \in DOMAIN inputs THEN inputs[zinput] ELSE "KeyError"

\* YamahaYncaZone.source_list: the names of all inputs, sorted, each as often as
\* inputs carry it.
source_list ==
    LET values == [k \in 1..Len(INPUT_ORDER) |-> inputs[INPUT_ORDER[k]]]
        named(n) == SelectSeq(values, LAMBDA v : v = n)
        from[k \in 1..(Len(NAME_ORDER) + 1)] ==
            IF k > Len(NAME_ORDER) THEN <<>> ELSE named(NAME_ORDER[k]) \o from[k + 1]
    IN  from[1]

\* select_source, which the host calls on an added entity: zone.input is assigned
\* what get_input_from_source returns; the zone then calls its update callbacks.
select_source ==
    /\ life = "added"
    /\ \E src \in SourceArgs :
        /\ zinput' = get_input_from_source(src)
        /\ lastSelect' = src
    /\ Deliver(ZoneId)
    /\ UNCHANGED <<life, present, callbacks, pwr, playbackinfo, hostView, inputs>>
    /\ UNCHANGED entryVars

\* The receiver reports on SYS: the user renamed inputs.
SysUpdate ==
    /\ inputs' \in [Inputs -> InputNames]
    /\ lastSelect' = "none"
    /\ Deliver("SYS")
    /\ UNCHANGED <<life, present, callbacks, pwr, zinput, playbackinfo, hostView>>
    /\ UNCHANGED entryVars

\* The host loop runs one scheduled refresh: it reads the entity's state.
HostRefresh ==
    /\ pending > 0
    /\ pending' = pending - 1
    /\ hostView' = state
    /\ UNCHANGED <<life, present, callbacks, pwr, zinput, playbackinfo, burstCallbacks,
                   burstRefreshes, inputs, lastSelect>>
    /\ UNCHANGED entryVars

\* The debounce window passes without another callback: the burst is over.
WindowElapse ==
    /\ burstCallbacks >= 1
    /\ burstCallbacks' = 0
    /\ burstRefreshes' = 0
    /\ UNCHANGED <<life, present, callbacks, pwr, zinput, playbackinfo, pending, hostView,
                   inputs, lastSelect>>
    /\ UNCHANGED entryVars

\* ========================================================== specifications

\* The receivers differ in their zones: the receiver of entry e has the first e of
\* them (all of them from entry NumZones on).
HardwareZones ==
    [e \in Entries |->
        {ZONE_ATTRIBUTE_NAMES[i] : i \in 1..(IF e < NumZones THEN e ELSE NumZones)}]

EntryStart ==
    /\ epc = [e \in Entries |-> "idle"]
    /\ result = [e \in Entries |-> "none"]
    /\ lastInit = [e \in Entries |-> "none"]
    /\ ran = [e \in Entries |-> {}]
    /\ receiver = [e \in Entries |-> [state |-> "none", closes |-> 0]]
    /\ connected = [e \in Entries |-> FALSE]
    /\ hassData = {}
    /\ serviceRegistered = FALSE
    /\ registeredTwice = FALSE
    /\ devices = {}
    /\ dataZones = [e \in Entries |-> [set |-> FALSE, zones |-> {}]]
    /\ forwarded = {}
    /\ mpEntities = {}
    /\ listeners = {}
    /\ dpc = [e \in Entries |-> "idle"]
    /\ cbReq = [e \in Entries |-> 0]
    /\ reload = [e \in Entries |-> "none"]

ZoneStart ==
    /\ life = "created"
    /\ callbacks = {}
    /\ pending = 0
    /\ hostView = "unknown"
    /\ burstCallbacks = 0
    /\ burstRefreshes = 0
    /\ lastSelect = "none"

\* The host with its config entries, no entity followed.
Init ==
    /\ EntryStart
    /\ zonesPresent = HardwareZones
    /\ ZoneStart
    /\ present = {}
    /\ pwr = FALSE
    /\ zinput = "HDMI1"
    /\ playbackinfo = [s \in PlaybackSubunits |-> "None"]
    /\ inputs = [i \in Inputs |-> "TV"]

Next ==
    \/ \E e \in Entries : HostSetup(e)
    \/ \E e \in Entries : InitializeDone(e)
    \/ \E e \in Entries : ForwardDone(e)
    \/ \E e \in Entries : HostUnload(e)
    \/ \E e \in Entries : UnloadPlatformsDone(e)
    \/ \E e \in Entries : CloseDone(e)
    \/ \E e \in Entries : OnDisconnect(e)
    \/ \E e \in Entries : ReloadStart(e)
    \/ \E e \in Entries : ReloadSetup(e)
    \/ \E e \in Entries : OnDisconnectReturn(e)

Spec == Init /\ [][Next]_vars

\* One zone entity of an initialized receiver.
InitZone ==
    /\ EntryStart
    /\ zonesPresent = HardwareZones
    /\ ZoneStart
    /\ present \in SUBSET InputSubunitIds
    /\ pwr \in BOOLEAN
    /\ zinput \in Inputs
    /\ playbackinfo \in [PlaybackSubunits -> PlaybackValues]
    /\ inputs \in [Inputs -> InputNames]

NextZone ==
    \/ async_added_to_hass
    \/ async_will_remove_from_hass
    \/ ZoneUpdate
    \/ SubunitUpdate
    \/ SysUpdate
    \/ select_source
    \/ HostRefresh
    \/ WindowElapse

SpecZone == InitZone /\ [][NextZone]_vars

\* The host loop runs every job schedule_update_ha_state put on it.
SpecZoneLive == SpecZone /\ WF_vars(HostRefresh)

\* ================================================================== claims

Quiescent == \A e \in Entries : epc[e] = "idle"

\* C1: a setup whose initialize() failed with one of the three library failures
\* ended by raising ConfigEntryNotReady, never by returning True or False, and
\* the host holds the entry for a retry.
C1_LibraryFailureRaisesNotReady ==
    \A e \in Entries :
        (epc[e] = "idle" /\ lastInit[e] \in LibraryFailures)
            => (result[e] = "setup_not_ready" /\ HostState(e) = "setup_retry")

\* C1 witness: two setups ended on different library failures.
C1_Witness ==
    /\ epc[1] = "idle" /\ lastInit[1] = "YncaConnectionFailed"
    /\ epc[2] = "idle" /\ lastInit[2] = "YncaInitializationFailedException"

\* C2: a setup whose initialize() raised any other exception returned False and
\* ran none of the post-initialization steps: nothing of the entry is in
\* hass.data, forwarded, registered or listened to.
C2_UnexpectedExceptionReturnsFalse ==
    \A e \in Entries :
        (epc[e] = "idle" /\ lastInit[e] = "Exception")
            => /\ result[e] = "setup_false"
               /\ ran[e] = {}
               /\ e \notin hassData
               /\ e \notin forwarded
               /\ e \notin listeners
               /\ \A m \in mpEntities : m.entry # e
               /\ (~dataZones[e].set => \A d \in devices : d.entry # e)
               /\ (hassData = {} /\ Quiescent => ~serviceRegistered)

\* C2 witness: the first setup of entry 1 ended on an unexpected exception while
\* nothing else was loaded.
C2_Witness ==
    /\ epc[1] = "idle" /\ lastInit[1] = "Exception" /\ ~dataZones[1].set
    /\ hassData = {} /\ Quiescent

\* C3: the disconnect callback asks the host loop to reload its own entry, stays
\* blocked until that reload ended, and ends normally when the host refused the
\* reload, which then changed nothing of the entry.
C3_DisconnectReloadsOwnEntry ==
    /\ [](\A e \in Entries :
            /\ dpc[e] = "waiting" => (cbReq[e] = e /\ reload[e] # "none")
            /\ dpc[e] # "raised"
            /\ reload[e] = "done" => epc[e] = "idle")
    /\ [][\A e \in Entries :
            (dpc[e] = "waiting" /\ dpc'[e] # "waiting")
                => reload[cbReq[e]] \in {"done", "refused"}]_vars
    /\ [][\A e \in Entries :
            (reload[e] = "queued" /\ reload'[e] = "refused")
                => /\ epc'[e] = epc[e] /\ result'[e] = result[e]
                   /\ receiver'[e] = receiver[e] /\ hassData' = hassData]_vars

\* C3 witness: one callback is about to return from a reload that unloaded its
\* entry and set it up again, another from a refused reload.
C3_Witness ==
    \E a, b \in Entries :
        /\ dpc[a] = "waiting" /\ reload[a] = "done" /\ result[a] = "setup_true"
        /\ receiver[a].state = "initialized"
        /\ dpc[b] = "waiting" /\ reload[b] = "refused"

\* C4: the update callbacks of one debounce window cause exactly one
\* schedule_update_ha_state call.
C4_BurstCoalesced ==
    [][(burstCallbacks >= 1 /\ burstCallbacks' = 0) => burstRefreshes = 1]_vars

\* C5: while the entity is added, whatever the receiver reported last is either
\* what the host wrote or still has a refresh scheduled, and a scheduled refresh
\* leads to the host holding the state of that moment: no update is lost.
C5_NoUpdateLost ==
    /\ [](life = "added" => (pending > 0 \/ hostView = state))
    /\ (pending > 0) ~> (hostView = state)

\* C5 witness: an update changed the state of the added entity and its refresh
\* has not run yet.
C5_Witness ==
    /\ life = "added"
    /\ pending > 0
    /\ hostView # state
    /\ burstCallbacks >= 1

\* C6: the callback is registered on SYS, the zone and every input subunit the
\* receiver has exactly while the entity is added, and nowhere after its removal.
C6_RegistrationSymmetric ==
    /\ life = "added" => callbacks = {"SYS", ZoneId} \cup present
    /\ life # "added" => callbacks = {}

\* C6 witness: an entity of a receiver with both input subunits was added and
\* removed again.
C6_Witness ==
    /\ life = "removed"
    /\ present = InputSubunitIds
    /\ callbacks = {}

\* C7: off when the power is off; with power on playing, paused or idle exactly
\* when the receiver has the subunit of the current input and its playbackinfo is
\* Play, Pause or Stop; on in every other case.
C7_StateFunction ==
    LET has == \E s \in present : SUBUNIT_INPUT_MAPPINGS[s] = zinput
        info == IF \E s \in present \cap PlaybackSubunits : SUBUNIT_INPUT_MAPPINGS[s] = zinput
                THEN playbackinfo[CHOOSE s \in present \cap PlaybackSubunits :
                                      SUBUNIT_INPUT_MAPPINGS[s] = zinput]
                ELSE "None"
    IN  /\ ~pwr => state = "off"
        /\ pwr => /\ state = "playing" <=> (has /\ info = "Play")
                  /\ state = "paused" <=> (has /\ info = "Pause")
                  /\ state = "idle" <=> (has /\ info = "Stop")
                  /\ state = "on" <=> (~has \/ info \notin {"Play", "Pause", "Stop"})

\* C7 witness: the host wrote off for a zone whose input subunit is playing.
C7_Witness ==
    /\ ~pwr
    /\ zinput = "USB" /\ "USB" \in present /\ playbackinfo["USB"] = "Play"
    /\ life = "added" /\ pending = 0 /\ hostView = "off"

\* C8: the identifier each media player entity reports is the identifier of a
\* device update_device_registry registered for the same entry.
C8_EntityLinksToRegisteredDevice ==
    \A m \in mpEntities : [entry |-> m.entry, ident |-> m.ident] \in devices

\* C9: between calls, send_raw_ynca is registered exactly when hass.data[DOMAIN]
\* holds an entry, and async_register never ran on a registered service.
C9_ServiceIffEntryLoaded ==
    /\ ~registeredTwice
    /\ Quiescent => (serviceRegistered <=> hassData # {})

\* C9 witness: one entry was unloaded while another stays loaded.
C9_Witness ==
    /\ Quiescent
    /\ \E a, b \in Entries :
        /\ result[a] = "unload_true" /\ a \notin hassData
        /\ result[b] = "setup_true" /\ b \in hassData
    /\ serviceRegistered

\* C10: an unload that returned True closed the entry's receiver once and removed
\* its data; one that returned False closed nothing and left the data; no step of
\* an unload touches another entry's data or receiver.
C10_UnloadClosesIffPlatformsUnloaded ==
    /\ [](\A e \in Entries :
            /\ result[e] = "unload_true"
                => (e \notin hassData /\ receiver[e] = [state |-> "closed", closes |-> 1])
            /\ result[e] = "unload_false"
                => (e \in hassData /\ receiver[e] = [state |-> "initialized", closes |-> 0])
            /\ epc[e] = "closing" => (e \notin hassData /\ receiver[e].closes = 0))
    /\ [][\A e \in Entries :
            (epc[e] \in {"unload_platforms", "closing"} /\ epc'[e] # epc[e])
                => \A o \in Entries \ {e} :
                      /\ (o \in hassData') <=> (o \in hassData)
                      /\ receiver'[o] = receiver[o]]_vars

\* C10 witness: one unload returned True and another returned False.
C10_Witness ==
    \E a, b \in Entries : result[a] = "unload_true" /\ result[b] = "unload_false"

\* C11 (first part): the zone's input is a key of the receiver's input table, so
\* source is defined.
C11_InputIsKey == zinput \in DOMAIN inputs /\ source # "KeyError"

\* C11 (second part): after select_source with a name of source_list, source is
\* that name.
C11_RoundTrip ==
    (\E k \in 1..Len(source_list) : source_list[k] = lastSelect) => source = lastSelect

\* C11: after any select_source calls the zone's input is a key of the input
\* table, and selecting a name of source_list makes source that name.
C11_SelectSourceKeepsSourceDefined == C11_InputIsKey /\ C11_RoundTrip

====
